---------------------------- MODULE Spec2Model ----------------------------
(***************************************************************************)
(* A model of psbeam/contouring.py: contour extraction, selection of the   *)
(* largest contour, moments, centroid, bounding box, contour size and the  *)
(* similarity score against a template.                                    *)
(*                                                                         *)
(* Every function of the module is a synchronous call.  The state is the   *)
(* record of the last call: which function ran, on which arguments, what   *)
(* it returned or raised, which collaborators (thresholder, OpenCV) it     *)
(* called on the way and whether it logged a warning.                      *)
(*                                                                         *)
(* Values.  A contour is a sequence of integer points <<x, y>>; as a numpy *)
(* array it has shape (n, 1, 2).  Areas are carried in half pixels and     *)
(* moments in 1/24 units, so that the polygon formulas stay in the         *)
(* integers; every quotient and every comparison with 0 is unchanged by    *)
(* the common factor.  An optional argument is <<>> for None and <<v>> for *)
(* a supplied value v.                                                     *)
(***************************************************************************)
EXTENDS Integers, Sequences, FiniteSets

VARIABLES op, args, result, calls, warned

vars == <<op, args, result, calls, warned>>

(***************************************************************************)
(* Bounds of the model.                                                    *)
(***************************************************************************)
MaxBlobs == 2
MaxContours == 2
MaxMoment == 4

(***************************************************************************)
(* Optional arguments and call outcomes.                                   *)
(***************************************************************************)
None == <<>>
Some(v) == <<v>>
IsNone(o) == o = <<>>
Get(o) == o[1]

Ok(v, cs, w) == [kind |-> "ok", val |-> v, calls |-> cs, warned |-> w]
Raise(k, cs, w) == [kind |-> k, val |-> <<>>, calls |-> cs, warned |-> w]

\* Two outcomes agree: the same failure kind, or the same returned value.
Same(r1, r2) == /\ r1.kind = r2.kind
                /\ r1.kind = "ok" => r1.val = r2.val

Abs(n) == IF n < 0 THEN -n ELSE n
Range(s) == {s[i] : i \in 1..Len(s)}
SeqsUpTo(S, n) == UNION {[1..k -> S] : k \in 0..n}

(***************************************************************************)
(* Contours and the OpenCV geometry routines the module calls.             *)
(***************************************************************************)
Dot == << <<1, 1>> >>
Tri == << <<0, 0>>, <<2, 0>>, <<0, 2>> >>
Rect == << <<1, 0>>, <<3, 0>>, <<3, 1>>, <<1, 1>> >>
Sq == << <<0, 0>>, <<0, 2>>, <<2, 2>>, <<2, 0>> >>
ContourPool == {Dot, Tri, Rect, Sq}

Pt(c, i) == c[((i - 1) % Len(c)) + 1]
Cross(c, i) == Pt(c, i)[1] * Pt(c, i + 1)[2] - Pt(c, i + 1)[1] * Pt(c, i)[2]

Shoelace(c) ==
    LET s[i \in 0..Len(c)] == IF i = 0 THEN 0 ELSE s[i - 1] + Cross(c, i)
    IN  s[Len(c)]

\* cv2.contourArea (unoriented): |shoelace| / 2, here in half pixels.
contourArea(c) == Abs(Shoelace(c))

\* cv2.moments of a polygon (Green's theorem), in 1/24 units; the sign is
\* normalised so that m00 >= 0 and a degenerate outline has all moments 0.
cv2_moments(c) ==
    LET a == Shoelace(c)
        sx[i \in 0..Len(c)] ==
            IF i = 0 THEN 0
            ELSE sx[i - 1] + Cross(c, i) * (Pt(c, i)[1] + Pt(c, i + 1)[1])
        sy[i \in 0..Len(c)] ==
            IF i = 0 THEN 0
            ELSE sy[i - 1] + Cross(c, i) * (Pt(c, i)[2] + Pt(c, i + 1)[2])
        sxy[i \in 0..Len(c)] ==
            IF i = 0 THEN 0
            ELSE sxy[i - 1] + Cross(c, i) *
                   ( Pt(c, i)[1] * (2 * Pt(c, i)[2] + Pt(c, i + 1)[2])
                   + Pt(c, i + 1)[1] * (Pt(c, i)[2] + 2 * Pt(c, i + 1)[2]) )
        sg == IF a < 0 THEN -1 ELSE 1
    IN  IF a = 0
        THEN [m00 |-> 0, m10 |-> 0, m01 |-> 0, m11 |-> 0]
        ELSE [m00 |-> sg * 12 * a, m10 |-> sg * 4 * sx[Len(c)],
              m01 |-> sg * 4 * sy[Len(c)], m11 |-> sg * sxy[Len(c)]]

MinOf(S) == CHOOSE m \in S : \A n \in S : m <= n
MaxOf(S) == CHOOSE m \in S : \A n \in S : n <= m

\* cv2.boundingRect: (x, y, width, height) of the upright enclosing rectangle.
boundingRect(c) ==
    LET xs == {c[i][1] : i \in 1..Len(c)}
        ys == {c[i][2] : i \in 1..Len(c)}
    IN  <<MinOf(xs), MinOf(ys), MaxOf(xs) - MinOf(xs) + 1, MaxOf(ys) - MinOf(ys) + 1>>

\* A numpy array: its shape and, when it is a contour, its points.
AsArray(c) == [shape |-> <<Len(c), 1, 2>>, pts |-> c]
Zeros(sh) == [shape |-> sh, pts |-> <<>>]
IsContourArray(a) == a.shape = <<Len(a.pts), 1, 2>> /\ Len(a.pts) > 0

\* The shape descriptor cv2.matchShapes compares (standing for the Hu moments).
Descriptor(c) == 8 * Len(c) + contourArea(c)

\* cv2.matchShapes(a, b, method, 0): 0 for equal descriptors; method 3 is
\* relative to the first argument, so it is not symmetric, and a vanishing
\* descriptor contributes nothing.
matchShapes(a, b, method) ==
    LET da == Descriptor(a)
        db == Descriptor(b)
    IN  CASE method = 1 -> Abs(da - db)
          [] method = 2 -> Abs(da * da - db * db)
          [] OTHER      -> IF da = 0 THEN 0 ELSE (100 * Abs(da - db)) \div da


(***************************************************************************)
(* Images and the collaborators of psbeam.preprocessing and psbeam.images. *)
(* An image is its layout (ndim, dtype) and the bright regions in it, each *)
(* an outline and an intensity level; the thresholder keeps the regions at *)
(* or above the cutoff of its mode.                                        *)
(***************************************************************************)
Levels == {1, 2}
Blobs == [cnt : ContourPool, lvl : Levels]
Image(nd, dt, bs) == [ndim |-> nd, dtype |-> dt, blobs |-> bs]
Images == {Image(2, "uint8", bs) : bs \in SeqsUpTo(Blobs, MaxBlobs)}

ValidModes == {"mean", "top", "bottom", "adaptive", "otsu"}
Cutoff(mode) == IF mode = "top" THEN 2 ELSE 1

\* threshold_image(image, mode=...): a binary image, or the thresholder's own
\* failure (of kind tf) outside its contract: an unknown mode, or an image that
\* is not single-channel 8-bit.
threshold_image(image, mode, tf) ==
    IF mode \notin ValidModes \/ image.ndim # 2 \/ image.dtype # "uint8"
    THEN Raise(tf, <<>>, FALSE)
    ELSE Ok(Image(2, "uint8",
                  SelectSeq(image.blobs, LAMBDA b : b.lvl >= Cutoff(mode))),
            <<>>, FALSE)

\* cv2.findContours(image_thresh, 1, 2): every outline of the binary image,
\* in the order the tracer meets them.
findContours(binary) == [i \in 1..Len(binary.blobs) |-> binary.blobs[i].cnt]

to_gray(image) == [image EXCEPT !.ndim = 2]
to_uint8(image) == [image EXCEPT !.dtype = "uint8"]

\* The namespace of psbeam.images.templates: images, members that are not
\* images (the module's own attributes, which have no shape), and names
\* that are not bound at all.
ImageNames == {"circle", "lenna", "gaussian"}
OtherMembers == {"__name__"}
TemplateNames == ImageNames \cup OtherMembers \cup {"TEST"}
HasMember(name) == name \in ImageNames \cup OtherMembers
HasShape(name) == name \in ImageNames
templates(name) ==
    CASE name = "circle" ->
           Image(2, "uint8", << [cnt |-> Dot, lvl |-> 2], [cnt |-> Sq, lvl |-> 2] >>)
      [] name = "lenna" ->
           Image(3, "uint8", << [cnt |-> Tri, lvl |-> 1], [cnt |-> Rect, lvl |-> 2] >>)
      [] OTHER ->
           Image(2, "float64", << [cnt |-> Rect, lvl |-> 1], [cnt |-> Dot, lvl |-> 2] >>)

\* A thresh_mode keyword: absent (the default "otsu") or given.
ModeOf(kw) == IF IsNone(kw) THEN "otsu" ELSE Get(kw)

(***************************************************************************)
(* psbeam/contouring.py                                                    *)
(***************************************************************************)
\* Variant: the emptiness check is lost.
IsEmpty_never(contours) == FALSE

IsEmpty(contours) == contours = <<>>

get_contours(image, thresh_mode, tf) ==
    LET t == threshold_image(image, thresh_mode, tf)
    IN  IF t.kind # "ok"
        THEN Raise(t.kind, <<"threshold_image">>, FALSE)
        ELSE LET contours == findContours(t.val)
             IN  IF IsEmpty(contours)
                 THEN Raise("NoContoursDetected",
                            <<"threshold_image", "findContours">>, FALSE)
                 ELSE Ok(contours, <<"threshold_image", "findContours">>, FALSE)

\* Variants: the check for missing inputs is lost; a supplied contour takes
\* precedence over the image.
NoInputs_unchecked(image, contour) == FALSE
UseImage_unlessContour(image, contour) == ~IsNone(image) /\ IsNone(contour)

\* "if image is None and contour(s) is None" / "elif image is not None".
NoInputs(image, contour) == IsNone(image) /\ IsNone(contour)
UseImage(image, contour) == ~IsNone(image)

\* Variant: the last index of the maximum.
argmax_last(a) ==
    LET b[i \in 1..Len(a)] ==
            IF i = 1 THEN 1 ELSE IF a[i] >= a[b[i - 1]] THEN i ELSE b[i - 1]
    IN  b[Len(a)]

\* np.argmax: the first index of the maximum.
argmax(a) ==
    LET b[i \in 1..Len(a)] ==
            IF i = 1 THEN 1 ELSE IF a[i] > a[b[i - 1]] THEN i ELSE b[i - 1]
    IN  b[Len(a)]

\* Variant: only a negative area is refused.
ZeroArea_negative(area_largest) == area_largest < 0

ZeroArea(area_largest) == area_largest = 0

get_largest_contour(image, contours, kw, tf) ==
    IF NoInputs(image, contours) THEN Raise("InputError", <<>>, FALSE)
    ELSE
      LET fromImage == UseImage(image, contours)
          w == fromImage /\ ~IsNone(contours)
          g == IF fromImage
               THEN get_contours(Get(image), ModeOf(kw), tf)
               ELSE Ok(Get(contours), <<>>, FALSE)
      IN  IF ~fromImage /\ IsNone(contours) THEN Raise("TypeError", <<>>, w)
          ELSE IF g.kind # "ok" THEN Raise(g.kind, g.calls, w)
          ELSE IF g.val = <<>> THEN Raise("ValueError", g.calls, w)
          ELSE
            LET areas == [i \in 1..Len(g.val) |-> contourArea(g.val[i])]
                contour_largest == g.val[argmax(areas)]
                area_largest == MaxOf(Range(areas))
                cs == g.calls \o <<"contourArea">>
            IN  IF ZeroArea(area_largest)
                THEN Raise("NoContoursDetected", cs, w)
                ELSE Ok(<<contour_largest, area_largest>>, cs, w)

\* The input dispatch shared by get_moments and get_bounding_box: the contour
\* to measure, taken from the image when there is one.
ResolveContour(image, contour, kw, tf) ==
    IF NoInputs(image, contour) THEN Raise("InputError", <<>>, FALSE)
    ELSE IF UseImage(image, contour)
    THEN LET r == get_largest_contour(image, None, kw, tf)
             w == ~IsNone(contour)
         IN  IF r.kind # "ok" THEN Raise(r.kind, r.calls, w)
             ELSE Ok(r.val[1], r.calls, w)
    ELSE IF IsNone(contour) THEN Raise("TypeError", <<>>, FALSE)
    ELSE Ok(Get(contour), <<>>, FALSE)

get_moments(image, contour, kw, tf) ==
    LET c == ResolveContour(image, contour, kw, tf)
    IN  IF c.kind # "ok" THEN c
        ELSE Ok(cv2_moments(c.val), c.calls \o <<"moments">>, c.warned)

\* Variant: the quotient rounded down (floor division).
TruncDiv_floor(a, b) == IF b < 0 THEN (-a) \div (-b) ELSE a \div b

\* int(a / b): the quotient truncated toward zero.
TruncDiv(a, b) ==
    LET q == Abs(a) \div Abs(b)
    IN  IF (a < 0) = (b < 0) THEN q ELSE -q

\* Variant: a zero m00 is reported as a caller error.
get_centroid_guarded(M) ==
    IF M.m00 = 0 THEN Raise("InputError", <<>>, FALSE)
    ELSE Ok(<<TruncDiv(M.m10, M.m00), TruncDiv(M.m01, M.m00)>>, <<>>, FALSE)

get_centroid(M) ==
    IF M.m00 = 0 THEN Raise("ZeroDivisionError", <<>>, FALSE)
    ELSE Ok(<<TruncDiv(M.m10, M.m00), TruncDiv(M.m01, M.m00)>>, <<>>, FALSE)

get_bounding_box(image, contour, kw, tf) ==
    LET c == ResolveContour(image, contour, kw, tf)
    IN  IF c.kind # "ok" THEN c
        ELSE Ok(boundingRect(c.val), c.calls \o <<"boundingRect">>, c.warned)

get_contour_size(image, contour, kw, tf) ==
    LET b == get_bounding_box(image, contour, kw, tf)
    IN  IF b.kind # "ok" THEN b
        ELSE Ok(<<b.val[4], b.val[3]>>, b.calls, b.warned)

\* The template argument of get_similarity: a str, a numpy array, or a value
\* that is neither (a bool in the tests).
StrTemplate(n) == [type |-> "str", name |-> n, arr |-> Zeros(<<>>)]
ArrayTemplate(a) == [type |-> "ndarray", name |-> "", arr |-> a]
BoolTemplate == [type |-> "bool", name |-> "", arr |-> Zeros(<<>>)]

\* Variant: only the number of dimensions is checked.
BadShape_rank_only(shape) == Len(shape) # 3

\* "len(template.shape) != 3 or (template.shape[1], template.shape[2]) != (1, 2)"
BadShape(shape) == Len(shape) # 3 \/ <<shape[2], shape[3]>> # <<1, 2>>

\* Variant: the conversion to a single channel is lost.
Normalize_skip_gray(image) ==
    [image |-> IF image.dtype # "uint8" THEN to_uint8(image) ELSE image,
     calls |-> IF image.dtype # "uint8" THEN <<"to_uint8">> ELSE <<>>]

\* "if len(template_image.shape) != 2: to_gray", "if dtype != np.uint8: to_uint8"
Normalize(image) ==
    LET gray == IF image.ndim # 2 THEN to_gray(image) ELSE image
        u8   == IF gray.dtype # "uint8" THEN to_uint8(gray) ELSE gray
    IN  [image |-> u8,
         calls |-> (IF image.ndim # 2 THEN <<"to_gray">> ELSE <<>>)
                   \o (IF gray.dtype # "uint8" THEN <<"to_uint8">> ELSE <<>>)]

\* "except AttributeError": what the try block around the named path catches.
Caught(kind) == kind = "AttributeError"

\* cv2.matchShapes(template_contour, contour, method, 0).  What OpenCV does
\* with a contour argument that is no point array is left open: it raises
\* (lib = None) or returns some score (lib = Some(score)).
Score(template_contour, contour, method, lib, cs) ==
    IF IsContourArray(contour)
    THEN Ok(matchShapes(template_contour, contour.pts, method),
            cs \o <<"matchShapes">>, FALSE)
    ELSE IF IsNone(lib) THEN Raise("cv2.error", cs \o <<"matchShapes">>, FALSE)
    ELSE Ok(Get(lib), cs \o <<"matchShapes">>, FALSE)

get_similarity(contour, template, method, kw, tf, lib) ==
    IF template.type = "str"
    THEN IF ~HasMember(template.name) \/ ~HasShape(template.name)
         THEN Raise("InputError", <<>>, FALSE)
         ELSE LET n == Normalize(templates(template.name))
                  r == get_largest_contour(Some(n.image), None, kw, tf)
              IN  IF r.kind # "ok"
                  THEN Raise(IF Caught(r.kind) THEN "InputError" ELSE r.kind,
                             n.calls \o r.calls, FALSE)
                  ELSE Score(r.val[1], contour, method, lib, n.calls \o r.calls)
    ELSE IF template.type = "ndarray"
    THEN IF BadShape(template.arr.shape)
         THEN Raise("InputError", <<>>, FALSE)
         ELSE Score(template.arr.pts, contour, method, lib, <<>>)
    ELSE Raise("InputError", <<>>, FALSE)

(***************************************************************************)
(* The inputs of the calls.                                                *)
(***************************************************************************)
OptImages == {None} \cup {Some(i) : i \in Images}
ContourLists == SeqsUpTo(ContourPool, MaxContours)
OptContourLists == {None} \cup {Some(cs) : cs \in ContourLists}
OptContours == {None} \cup {Some(c) : c \in ContourPool}

\* The thresh_mode keyword and the kind of failure the thresholder raises
\* when it rejects its arguments.
ThreshFailKinds == {"ValueError", "AttributeError"}
ThreshEnv == {<<None, "ValueError">>, <<Some("top"), "ValueError">>}
                \cup {<<Some("bogus"), k>> : k \in ThreshFailKinds}

MomentValues == (-MaxMoment)..MaxMoment
Moments == [m00 : MomentValues, m10 : MomentValues, m01 : MomentValues,
            m11 : {0, 1}]

Methods == {1, 2, 3}
ContourArrays == {AsArray(c) : c \in ContourPool}
ContourArgs == ContourArrays \cup {Zeros(<<10>>)}
TemplateArrays == ContourArrays \cup
    {Zeros(<<10>>), Zeros(<<10, 10>>), Zeros(<<3, 1, 3>>), Zeros(<<3, 2, 2>>),
     Zeros(<<2, 3, 1, 2>>)}
Templates == {StrTemplate(n) : n \in TemplateNames}
                \cup {ArrayTemplate(a) : a \in TemplateArrays}
                \cup {BoolTemplate}
LibOutcomes == {None, Some(0), Some(1)}

(***************************************************************************)
(* The state machine: a caller makes one call at a time.                   *)
(***************************************************************************)
Init ==
    /\ op = "idle"
    /\ args = <<>>
    /\ result = [kind |-> "none", val |-> <<>>]
    /\ calls = <<>>
    /\ warned = FALSE

Finish(name, a, r) ==
    /\ op' = name
    /\ args' = a
    /\ result' = [kind |-> r.kind, val |-> r.val]
    /\ calls' = r.calls
    /\ warned' = r.warned

Call_get_contours ==
    /\ op = "idle"
    /\ \E image \in Images, e \in ThreshEnv :
          Finish("get_contours",
                 [image |-> image, kw |-> e[1], tf |-> e[2]],
                 get_contours(image, ModeOf(e[1]), e[2]))

Call_get_largest_contour ==
    /\ op = "idle"
    /\ \E image \in OptImages, contours \in OptContourLists, e \in ThreshEnv :
          Finish("get_largest_contour",
                 [image |-> image, contours |-> contours,
                  kw |-> e[1], tf |-> e[2]],
                 get_largest_contour(image, contours, e[1], e[2]))

Call_get_moments ==
    /\ op = "idle"
    /\ \E image \in OptImages, contour \in OptContours, e \in ThreshEnv :
          Finish("get_moments",
                 [image |-> image, contour |-> contour,
                  kw |-> e[1], tf |-> e[2]],
                 get_moments(image, contour, e[1], e[2]))

Call_get_centroid ==
    /\ op = "idle"
    /\ \E M \in Moments :
          Finish("get_centroid", [M |-> M], get_centroid(M))

Call_get_bounding_box ==
    /\ op = "idle"
    /\ \E image \in OptImages, contour \in OptContours, e \in ThreshEnv :
          Finish("get_bounding_box",
                 [image |-> image, contour |-> contour,
                  kw |-> e[1], tf |-> e[2]],
                 get_bounding_box(image, contour, e[1], e[2]))

Call_get_contour_size ==
    /\ op = "idle"
    /\ \E image \in OptImages, contour \in OptContours, e \in ThreshEnv :
          Finish("get_contour_size",
                 [image |-> image, contour |-> contour,
                  kw |-> e[1], tf |-> e[2]],
                 get_contour_size(image, contour, e[1], e[2]))

Call_get_similarity ==
    /\ op = "idle"
    /\ \E contour \in ContourArgs, template \in Templates, method \in Methods,
          e \in ThreshEnv, lib \in LibOutcomes :
          Finish("get_similarity",
                 [contour |-> contour, template |-> template,
                  method |-> method, kw |-> e[1], tf |-> e[2], lib |-> lib],
                 get_similarity(contour, template, method, e[1], e[2], lib))

\* The caller takes the outcome and is free to make the next call.
Return ==
    /\ op # "idle"
    /\ op' = "idle"
    /\ args' = <<>>
    /\ result' = [kind |-> "none", val |-> <<>>]
    /\ calls' = <<>>
    /\ warned' = FALSE

Next ==
    \/ Call_get_contours
    \/ Call_get_largest_contour
    \/ Call_get_moments
    \/ Call_get_centroid
    \/ Call_get_bounding_box
    \/ Call_get_contour_size
    \/ Call_get_similarity
    \/ Return

Spec == Init /\ [][Next]_vars

(***************************************************************************)
(* Properties.  Each is a statement about the state a call leaves behind.  *)
(***************************************************************************)
Selectors == {"get_largest_contour", "get_moments", "get_bounding_box",
              "get_contour_size"}

\* The contour(s) argument of the call that ran.
ContourArg == IF op = "get_largest_contour" THEN args.contours ELSE args.contour

RunOn(o, image, contour, kw, tf) ==
    CASE o = "get_largest_contour" -> get_largest_contour(image, contour, kw, tf)
      [] o = "get_moments"         -> get_moments(image, contour, kw, tf)
      [] o = "get_bounding_box"    -> get_bounding_box(image, contour, kw, tf)
      [] OTHER                     -> get_contour_size(image, contour, kw, tf)

\* The candidate contours of a get_largest_contour call: extracted from the
\* image when there is one, the supplied sequence otherwise.
Candidates ==
    IF ~IsNone(args.image)
    THEN get_contours(Get(args.image), ModeOf(args.kw), args.tf)
    ELSE Ok(Get(args.contours), <<>>, FALSE)

MaxArea(cands) == MaxOf({contourArea(cands[i]) : i \in 1..Len(cands)})

\* C1: for a non-empty candidate sequence get_largest_contour returns a member
\* of the sequence with its area, the area is the maximum over all candidates,
\* and among candidates of maximal area the first in iteration order is the
\* one returned (a maximum of 0 is the failure of C2).
C1_LargestIsFirstMaximum ==
    (op = "get_largest_contour" /\ ~(IsNone(args.image) /\ IsNone(args.contours)))
    => LET g == Candidates
       IN  (g.kind = "ok" /\ g.val # <<>>)
           => /\ MaxArea(g.val) > 0 => result.kind = "ok"
              /\ result.kind = "ok"
                 => \E i \in 1..Len(g.val) :
                       /\ g.val[i] = result.val[1]
                       /\ result.val[2] = contourArea(g.val[i])
                       /\ result.val[2] = MaxArea(g.val)
                       /\ \A j \in 1..(i - 1) : contourArea(g.val[j]) < MaxArea(g.val)

\* Two different candidates tie for the maximum and the earlier one is returned.
C1_Witness ==
    /\ op = "get_largest_contour"
    /\ IsNone(args.image) /\ ~IsNone(args.contours)
    /\ result.kind = "ok"
    /\ LET cs == Get(args.contours)
       IN  /\ Len(cs) >= 2
           /\ cs[1] # cs[2]
           /\ contourArea(cs[1]) = contourArea(cs[2])
           /\ contourArea(cs[1]) = MaxArea(cs)
           /\ result.val[1] = cs[1]

C3_NoInputsIsInputError ==
    (op \in Selectors /\ IsNone(args.image) /\ IsNone(ContourArg))
    => /\ result.kind = "InputError"
       /\ calls = <<>>

\* get_contour_size with no inputs and a thresh_mode the thresholder rejects.
C3_Witness ==
    /\ op = "get_contour_size"
    /\ IsNone(args.image) /\ IsNone(args.contour)
    /\ args.kw = Some("bogus")
    /\ result.kind = "InputError"

InvalidTemplate(t) ==
    \/ t.type = "str" /\ t.name \notin ImageNames
    \/ t.type = "ndarray"
         /\ ~(Len(t.arr.shape) = 3 /\ t.arr.shape[2] = 1 /\ t.arr.shape[3] = 2)
    \/ t.type \notin {"str", "ndarray"}

\* C5: get_similarity raises InputError for a str that resolves to no image of
\* the catalogue (an unbound name, or a member that is not an image), for an
\* array whose shape is not (n, 1, 2) and for a value of any other type; it
\* does so before any score is computed and for every contour argument, a
\* malformed one included.
C5_InvalidTemplateIsInputError ==
    (op = "get_similarity" /\ InvalidTemplate(args.template))
    => /\ result.kind = "InputError"
       /\ "matchShapes" \notin Range(calls)

\* A member of the catalogue that is not an image, with a malformed contour.
C5_Witness ==
    /\ op = "get_similarity"
    /\ args.template = StrTemplate("__name__")
    /\ ~IsContourArray(args.contour)
    /\ result.kind = "InputError"

\* C6: get_contours raises NoContoursDetected exactly when contour discovery
\* on the binarized image finds nothing; otherwise it returns every contour
\* found, degenerate ones included, and never an empty list.
C6_EmptyIffNoContoursDetected ==
    op = "get_contours"
    => LET t == threshold_image(args.image, ModeOf(args.kw), args.tf)
       IN  /\ result.kind = "NoContoursDetected"
                <=> (t.kind = "ok" /\ findContours(t.val) = <<>>)
           /\ (t.kind = "ok" /\ findContours(t.val) # <<>>)
                => (result.kind = "ok" /\ result.val = findContours(t.val))
           /\ result.kind = "ok" => result.val # <<>>

\* A returned list that keeps an outline of area 0 beside a larger one.
C6_Witness ==
    /\ op = "get_contours"
    /\ result.kind = "ok"
    /\ \E i, j \in 1..Len(result.val) :
          contourArea(result.val[i]) = 0 /\ contourArea(result.val[j]) > 0

\* The thresholder is reached by the call that ran and rejects its arguments.
ThresholderFails ==
    /\ \/ op = "get_contours"
       \/ op \in Selectors /\ ~IsNone(args.image)
       \/ op = "get_similarity" /\ args.template.type = "str"
            /\ args.template.name \in ImageNames
    /\ ModeOf(args.kw) \notin ValidModes

\* OpenCV is handed a contour argument that is no point array.
MalformedContour == op = "get_similarity" /\ ~IsContourArray(args.contour)

\* C7 as stated, for the calls in which the collaborators keep to their
\* contracts: the call returns a value or fails with NoContoursDetected or
\* InputError (get_largest_contour on an empty sequence and get_centroid
\* with m00 = 0 are such calls).
C7_OnlyTwoErrorKinds ==
    (op # "idle" /\ ~ThresholderFails /\ ~MalformedContour)
    => result.kind \in {"ok", "NoContoursDetected", "InputError"}

\* C7 as amended: a call returns a value or fails with NoContoursDetected or
\* InputError, except that get_centroid with m00 = 0 fails with
\* ZeroDivisionError, get_largest_contour with an empty contours sequence and
\* no image fails with ValueError, a failure of the thresholder surfaces with
\* the thresholder's kind, and an OpenCV failure on a contour argument that
\* is no point array surfaces as OpenCV's error.
C7_ErrorKinds ==
    /\ (op = "get_centroid" /\ args.M.m00 = 0)
          => result.kind = "ZeroDivisionError"
    /\ (op = "get_largest_contour" /\ IsNone(args.image)
          /\ args.contours = Some(<<>>))
          => result.kind = "ValueError"
    /\ (op # "idle" /\ result.kind \notin {"ok", "NoContoursDetected", "InputError"})
          => \/ op = "get_centroid" /\ args.M.m00 = 0
                  /\ result.kind = "ZeroDivisionError"
             \/ op = "get_largest_contour" /\ IsNone(args.image)
                  /\ args.contours = Some(<<>>) /\ result.kind = "ValueError"
             \/ ThresholderFails /\ result.kind = args.tf
             \/ MalformedContour /\ result.kind = "cv2.error"

\* get_largest_contour on an empty sequence, raising numpy's ValueError.
C7_Witness ==
    /\ op = "get_largest_contour"
    /\ IsNone(args.image) /\ args.contours = Some(<<>>)
    /\ result.kind = "ValueError"

\* The outcome of the stage upstream of the call that ran: the selection of
\* the largest contour of the image, or of the normalized template image.
Upstream ==
    IF op = "get_similarity"
    THEN get_largest_contour(
             Some(to_uint8(to_gray(templates(args.template.name)))),
             None, args.kw, args.tf)
    ELSE get_largest_contour(args.image, None, args.kw, args.tf)

\* C8: a failure of the thresholder or of an upstream stage reaches the caller
\* of get_moments, get_bounding_box, get_contour_size and get_similarity (with
\* a named template) with its kind unchanged: nothing is caught or
\* reclassified on the way.
C8_FailuresSurfaceUnchanged ==
    (\/ op \in {"get_moments", "get_bounding_box", "get_contour_size"}
          /\ ~IsNone(args.image)
     \/ op = "get_similarity" /\ args.template.type = "str"
          /\ args.template.name \in ImageNames)
    => (Upstream.kind # "ok" => result.kind = Upstream.kind)

\* C9: for the same contour, method and selector options, get_similarity with
\* a template name has the outcome of get_similarity with the explicit
\* contour of that name, the largest contour of the catalogued image in
\* single-channel 8-bit form.
C9_NameEqualsExplicitContour ==
    (op = "get_similarity" /\ args.template.type = "str"
       /\ args.template.name \in ImageNames)
    => (Upstream.kind = "ok"
        => Same(result,
                get_similarity(args.contour,
                               ArrayTemplate(AsArray(Upstream.val[1])),
                               args.method, args.kw, args.tf, args.lib)))

\* A colour template under a non-default thresh_mode, scored against a
\* contour of another shape.
C9_Witness ==
    /\ op = "get_similarity"
    /\ args.template = StrTemplate("lenna")
    /\ args.kw = Some("top")
    /\ IsContourArray(args.contour)
    /\ result.kind = "ok"
    /\ result.val > 0

\* q is a / b truncated toward zero.
IsTruncated(q, a, b) ==
    /\ Abs(q) * Abs(b) <= Abs(a)
    /\ Abs(a) < (Abs(q) + 1) * Abs(b)
    /\ q > 0 => (a > 0) = (b > 0)
    /\ q < 0 => (a > 0) # (b > 0)

\* C10: for moments with m00 # 0, get_centroid returns (m10 / m00, m01 / m00),
\* each quotient truncated toward zero, and reads no other moment; with
\* m00 = 0 it returns nothing and fails with a division by zero.
C10_CentroidTruncates ==
    op = "get_centroid"
    => /\ args.M.m00 # 0
          => /\ result.kind = "ok"
             /\ IsTruncated(result.val[1], args.M.m10, args.M.m00)
             /\ IsTruncated(result.val[2], args.M.m01, args.M.m00)
             /\ \A v \in {0, 1} :
                   Same(result, get_centroid([args.M EXCEPT !.m11 = v]))
       /\ args.M.m00 = 0
          => /\ result.kind = "ZeroDivisionError"
             /\ result.val = <<>>

\* A negative quotient that is not an integer: truncation and flooring differ.
C10_Witness ==
    /\ op = "get_centroid"
    /\ args.M.m00 > 0 /\ args.M.m10 < 0
    /\ args.M.m10 % args.M.m00 # 0
    /\ result.kind = "ok"
    /\ result.val[1] = -((-args.M.m10) \div args.M.m00)
=============================================================================
